---- MODULE Spec2Model ----
(***************************************************************************)
(* Model of src/main.rs: a fixed-width multi-limb unsigned integer with a  *)
(* borrowing subtraction, the comparisons built on it, the NonZero         *)
(* wrapper, random_bits_core and the rejection loop random_mod_core.       *)
(*                                                                         *)
(* Widths.  The code works on u64 limbs made of 8 bytes of 8 bits, with a  *)
(* u128 intermediate, and draws 4 bytes for a short top limb.  TLC's       *)
(* integers are 32 bits wide, so the model is parametric in the width: a   *)
(* byte has ByteBits bits, a half limb HalfBytes bytes, a limb             *)
(* LimbBytes = 2 * HalfBytes bytes; the code is the instance               *)
(* ByteBits = 8, HalfBytes = 4.  Every operator below is written against   *)
(* these names, never against the numbers.  LIMBS keeps the code's value.  *)
(***************************************************************************)
EXTENDS Integers, Sequences, FiniteSets

VARIABLES
  pc,        \* position of the program / of the operation under study
  modulus,   \* the Uint wrapped by the NonZero handed to the sampler
  n,         \* the scratch Uint of my_random_mod (the limb buffer)
  n_bits,    \* random_mod_core's n_bits / random_bits_core's bit_length
  attempts,  \* iterations of the rejection loop started so far
  stream,    \* bytes the source delivered during the last random_bits_core
  consumed,  \* total number of bytes drawn from the source
  lhs,       \* left operand of the arithmetic operation under study
  rhs,       \* right operand
  borrow,    \* incoming borrow flag
  res        \* result of the arithmetic operation under study

vars == <<pc, modulus, n, n_bits, attempts, stream, consumed, lhs, rhs, borrow, res>>

---------------------------------------------------------------------------
(* Bounds of the model *)

ByteBits == 1      \* bits of a byte (the code: 8)
HalfBytes == 1     \* bytes drawn for a short top limb (the code: 4)
MaxAttempts == 2   \* ceiling of the rejection loop (the code: u32::MAX)

(* Program constants *)

LIMBS == 5

LimbBytes == 2 * HalfBytes
LimbBits == LimbBytes * ByteBits
HalfBits == HalfBytes * ByteBits
ByteMod == 2 ^ ByteBits
ByteMax == ByteMod - 1
LimbMod == 2 ^ LimbBits
LimbMax == LimbMod - 1
WideMod == LimbMod * LimbMod
BITS == LimbBits * LIMBS

Limbs == 0 .. LimbMax
LimbIdx == 1 .. LIMBS

---------------------------------------------------------------------------
(* Bit operations on machine words *)

shr(x, k) == x \div (2 ^ k)

RECURSIVE bitxor(_, _)
bitxor(a, b) ==
  IF a = 0 /\ b = 0 THEN 0
  ELSE (((a % 2) + (b % 2)) % 2) + 2 * bitxor(a \div 2, b \div 2)

RECURSIVE bitor(_, _)
bitor(a, b) ==
  IF a = 0 /\ b = 0 THEN 0
  ELSE (IF a % 2 = 1 \/ b % 2 = 1 THEN 1 ELSE 0) + 2 * bitor(a \div 2, b \div 2)

RECURSIVE bitand(_, _)
bitand(a, b) ==
  IF a = 0 \/ b = 0 THEN 0
  ELSE (IF a % 2 = 1 /\ b % 2 = 1 THEN 1 ELSE 0) + 2 * bitand(a \div 2, b \div 2)

wrapping_neg(x) == (LimbMod - x) % LimbMod

---------------------------------------------------------------------------
(* Limb arithmetic *)

(* The incoming flag used as a number, its shift forgotten. *)
borrowing_sub_no_shift(l, r, bw) ==
  LET ret == (l - (r + bw)) % WideMod
  IN  <<ret % LimbMod, shr(ret, LimbBits) % LimbMod>>

borrowing_sub_wideword(l, r, bw) ==
  LET a == l
      b == r
      bit == shr(bw, LimbBits - 1)
      ret == (a - (b + bit)) % WideMod
  IN  <<ret % LimbMod, shr(ret, LimbBits) % LimbMod>>

Limb_ZERO == 0

Limb_borrowing_sub(self, r, bw) == borrowing_sub_wideword(self, r, bw)

---------------------------------------------------------------------------
(* Uint *)

Uint_ZERO == [i \in LimbIdx |-> Limb_ZERO]

(* The loop with the borrow recorded but never fed to the next limb. *)
RECURSIVE borrowing_sub_loop_unthreaded(_, _, _, _, _)
borrowing_sub_loop_unthreaded(self, r, limbs, bw, i) ==
  IF i < LIMBS
  THEN LET wb == Limb_borrowing_sub(self[i + 1], r[i + 1], Limb_ZERO)
       IN  borrowing_sub_loop_unthreaded(self, r, [limbs EXCEPT ![i + 1] = wb[1]],
                                         wb[2], i + 1)
  ELSE <<limbs, bw>>

RECURSIVE borrowing_sub_loop(_, _, _, _, _)
borrowing_sub_loop(self, r, limbs, bw, i) ==
  IF i < LIMBS
  THEN LET wb == Limb_borrowing_sub(self[i + 1], r[i + 1], bw)
       IN  borrowing_sub_loop(self, r, [limbs EXCEPT ![i + 1] = wb[1]], wb[2], i + 1)
  ELSE <<limbs, bw>>

Uint_borrowing_sub(self, r, bw) ==
  borrowing_sub_loop(self, r, [i \in LimbIdx |-> Limb_ZERO], bw, 0)

(* The subtraction started with the borrow set: answers l <= r. *)
Uint_lt_initial_borrow(l, r) ==
  LET sb == Uint_borrowing_sub(l, r, LimbMax)
  IN  IF sb[2] # 0 THEN 1 ELSE 0

Uint_lt(l, r) ==
  LET sb == Uint_borrowing_sub(l, r, Limb_ZERO)
  IN  IF sb[2] # 0 THEN 1 ELSE 0

RECURSIVE ct_eq_acc(_, _, _, _)
ct_eq_acc(self, other, acc, i) ==
  IF i < LIMBS
  THEN ct_eq_acc(self, other, bitor(acc, bitxor(self[i + 1], other[i + 1])), i + 1)
  ELSE acc

(* The accumulator's top bit inspected without folding in its negation. *)
ct_eq_top_bit(self, other) ==
  LET acc == ct_eq_acc(self, other, 0, 0)
  IN  bitxor(shr(acc, LimbBits - 1) % ByteMod, 1)

ct_eq(self, other) ==
  LET acc == ct_eq_acc(self, other, 0, 0)
  IN  bitxor(shr(bitor(acc, wrapping_neg(acc)), LimbBits - 1) % ByteMod, 1)

(* The operands handed over in the wrong order. *)
ct_lt_swapped(self, other) == Uint_lt(other, self)

ct_lt(self, other) == Uint_lt(self, other)

ct_gt(self, other) == ct_lt(other, self)

---------------------------------------------------------------------------
(* NonZero *)

NonZero_new(val) == [some |-> TRUE, val |-> val]

bits_vartime(self) == BITS

---------------------------------------------------------------------------
(* The byte-stream source.  One fill_bytes call on a k-byte slice delivers *)
(* a byte string.  SourceBytes: all zero, all ones, all ones with the      *)
(* lowest bit cleared, and the value one; with one-bit bytes and two-byte  *)
(* limbs these are all the strings there are.  SamplerBytes: the first     *)
(* three, the strings the rejection loop is driven with.                   *)

SamplerBytes(k) ==
  { [i \in 1 .. k |-> 0],
    [i \in 1 .. k |-> ByteMax],
    [i \in 1 .. k |-> IF i = 1 THEN ByteMax - 1 ELSE ByteMax] }

SourceBytes(k) ==
  SamplerBytes(k) \cup { [i \in 1 .. k |-> IF i = 1 THEN 1 ELSE 0] }

(* A source, as the set of byte strings it may deliver per slice length. *)
SamplerSource == [k \in 1 .. LimbBytes |-> SamplerBytes(k)]
FullSource == [k \in 1 .. LimbBytes |-> SourceBytes(k)]

fill_bytes(buffer, k, draw) ==
  [i \in 1 .. LimbBytes |-> IF i <= k THEN draw[i] ELSE buffer[i]]

to_be_bytes(v) ==
  [i \in 1 .. LimbBytes |-> shr(v, ByteBits * (LimbBytes - i)) % ByteMod]

RECURSIVE from_le_bytes_at(_, _)
from_le_bytes_at(buffer, i) ==
  IF i > LimbBytes THEN 0
  ELSE buffer[i] + ByteMod * from_le_bytes_at(buffer, i + 1)

(* The buffer read most significant byte first. *)
RECURSIVE from_be_bytes_at(_, _)
from_be_bytes_at(buffer, i) ==
  IF i < 1 THEN 0
  ELSE buffer[i] + ByteMod * from_be_bytes_at(buffer, i - 1)

from_be_bytes(buffer) == from_be_bytes_at(buffer, LimbBytes)

from_le_bytes(buffer) == from_le_bytes_at(buffer, 1)

div_ceil(a, b) == (a + b - 1) \div b

slice_len(partial_limb) ==
  IF partial_limb > 0 /\ partial_limb <= HalfBits THEN HalfBytes ELSE LimbBytes

(* The byte strings the source delivers to one random_bits_core call: one  *)
(* per fill_bytes call, the last one of the slice's length.                *)
RngDraws(source, bit_length) ==
  IF bit_length = 0 THEN { <<>> }
  ELSE LET nonzero_limbs == div_ceil(bit_length, LimbBits)
           k == slice_len(bit_length % LimbBits)
       IN  { [i \in 1 .. nonzero_limbs |-> IF i < nonzero_limbs THEN f[i] ELSE l] :
               f \in [1 .. nonzero_limbs - 1 -> source[LimbBytes]],
               l \in source[k] }

RECURSIVE Flatten(_, _)
Flatten(draws, i) ==
  IF i > Len(draws) THEN <<>> ELSE draws[i] \o Flatten(draws, i + 1)

RECURSIVE random_bits_loop(_, _, _, _, _)
random_bits_loop(draws, limbs, buffer, i, last) ==
  IF i < last
  THEN LET b == fill_bytes(buffer, LimbBytes, draws[i + 1])
       IN  random_bits_loop(draws, [limbs EXCEPT ![i + 1] = from_le_bytes(b)],
                            b, i + 1, last)
  ELSE <<limbs, buffer>>

(* No masking of the top limb. *)
low_mask_none(partial_limb) == LimbMax

low_mask(partial_limb) == shr(LimbMax, (LimbBits - partial_limb) % LimbBits)

(* No early return: a zero bit length stores an empty top limb in limb 0. *)
random_bits_core_no_guard(draws, zeroed_limbs, bit_length) ==
  IF bit_length = 0
  THEN [zeroed_limbs EXCEPT ![1] = bitand(from_le_bytes(to_be_bytes(0)), low_mask(0))]
  ELSE LET nonzero_limbs == div_ceil(bit_length, LimbBits)
           partial_limb == bit_length % LimbBits
           lb == random_bits_loop(draws, zeroed_limbs, to_be_bytes(0), 0, nonzero_limbs - 1)
           buffer == fill_bytes(lb[2], slice_len(partial_limb), draws[nonzero_limbs])
       IN  [lb[1] EXCEPT ![nonzero_limbs] =
              bitand(from_le_bytes(buffer), low_mask(partial_limb))]

random_bits_core(draws, zeroed_limbs, bit_length) ==
  IF bit_length = 0 THEN zeroed_limbs
  ELSE LET buffer0 == to_be_bytes(0)
           nonzero_limbs == div_ceil(bit_length, LimbBits)
           partial_limb == bit_length % LimbBits
           mask == low_mask(partial_limb)
           lb == random_bits_loop(draws, zeroed_limbs, buffer0, 0, nonzero_limbs - 1)
           buffer == fill_bytes(lb[2], slice_len(partial_limb), draws[nonzero_limbs])
       IN  [lb[1] EXCEPT ![nonzero_limbs] = bitand(from_le_bytes(buffer), mask)]

---------------------------------------------------------------------------
(* Inputs *)

AllOnes == [i \in LimbIdx |-> LimbMax]

(* main's modulus: limb 0 is 0 - special for an odd special, the rest MAX. *)
main_p_val(special) ==
  [i \in LimbIdx |-> IF i = 1 THEN (0 - special) % LimbMod ELSE LimbMax]

ScenarioModulus == [i \in LimbIdx |-> IF i = 1 THEN LimbMax - 1 ELSE LimbMax]

ModulusVals ==
  { Uint_ZERO, ScenarioModulus,
    [i \in LimbIdx |-> IF i = 1 THEN 1 ELSE 0],
    [i \in LimbIdx |-> IF i = 3 THEN 1 ELSE 0] }
  \cup { main_p_val(bitor(v, 1)) : v \in {0, LimbMax} }

NBitsVals == 0 .. (2 * LimbBits + 1)

---------------------------------------------------------------------------
(* The program: main builds a NonZero modulus and samples below it. *)

Init ==
  /\ pc = "main"
  /\ modulus = Uint_ZERO
  /\ n = Uint_ZERO
  /\ n_bits = 0
  /\ attempts = 0
  /\ stream = <<>>
  /\ consumed = 0
  /\ lhs = 0 /\ rhs = 0 /\ borrow = 0 /\ res = 0

NewModulus ==
  /\ pc = "main"
  /\ \E val \in ModulusVals :
       LET p == NonZero_new(val)
       IN  IF p.some
           THEN modulus' = p.val /\ pc' = "have_modulus"
           ELSE modulus' = modulus /\ pc' = "absent"
  /\ UNCHANGED <<n, n_bits, attempts, stream, consumed, lhs, rhs, borrow, res>>

my_random_mod ==
  /\ pc = "have_modulus"
  /\ n' = Uint_ZERO
  /\ n_bits' = bits_vartime(modulus)
  /\ attempts' = 0
  /\ pc' = "sampling"
  /\ UNCHANGED <<modulus, stream, consumed, lhs, rhs, borrow, res>>

random_mod_core ==
  /\ pc = "have_modulus"
  /\ n' = Uint_ZERO
  /\ \E nb \in NBitsVals : n_bits' = nb
  /\ attempts' = 0
  /\ pc' = "sampling"
  /\ UNCHANGED <<modulus, stream, consumed, lhs, rhs, borrow, res>>

Iterate ==
  /\ pc = "sampling"
  /\ attempts < MaxAttempts
  /\ \E draws \in RngDraws(SamplerSource, n_bits) :
       /\ n' = random_bits_core(draws, n, n_bits)
       /\ stream' = Flatten(draws, 1)
       /\ consumed' = consumed + Len(stream')
       /\ attempts' = attempts + 1
       /\ pc' = IF ct_lt(n', modulus) = 1 THEN "accepted" ELSE "sampling"
  /\ UNCHANGED <<modulus, n_bits, lhs, rhs, borrow, res>>

(* The loop falling through to a normal return once the ceiling is hit. *)
Panic_returns ==
  /\ pc = "sampling"
  /\ attempts = MaxAttempts
  /\ pc' = "accepted"
  /\ UNCHANGED <<modulus, n, n_bits, attempts, stream, consumed, lhs, rhs, borrow, res>>

Panic ==
  /\ pc = "sampling"
  /\ attempts = MaxAttempts
  /\ pc' = "panicked"
  /\ UNCHANGED <<modulus, n, n_bits, attempts, stream, consumed, lhs, rhs, borrow, res>>

Next == NewModulus \/ my_random_mod \/ random_mod_core \/ Iterate \/ Panic

Spec == Init /\ [][Next]_vars

---------------------------------------------------------------------------
(* Limb::borrowing_sub on its own: every pair of limbs, and borrow flags   *)
(* with and without the top bit.                                           *)

BorrowFlags == {0, 1, 2 ^ (LimbBits - 1), LimbMax}

InitLimb ==
  /\ pc = "limb_call"
  /\ lhs \in Limbs /\ rhs \in Limbs /\ borrow \in BorrowFlags
  /\ res = <<>>
  /\ modulus = Uint_ZERO /\ n = Uint_ZERO /\ n_bits = 0 /\ attempts = 0
  /\ stream = <<>> /\ consumed = 0

LimbSub ==
  /\ pc = "limb_call"
  /\ res' = Limb_borrowing_sub(lhs, rhs, borrow)
  /\ pc' = "limb_done"
  /\ UNCHANGED <<modulus, n, n_bits, attempts, stream, consumed, lhs, rhs, borrow>>

NextLimb == LimbSub

SpecLimb == InitLimb /\ [][NextLimb]_vars

---------------------------------------------------------------------------
(* Uint::borrowing_sub and the comparisons on their own. *)

LhsLimbs == {0, 1, LimbMax - 1, LimbMax}
RhsLimbs == {0, 1, LimbMax}

InitCmp ==
  /\ pc = "cmp_call"
  /\ lhs \in [LimbIdx -> LhsLimbs] /\ rhs \in [LimbIdx -> RhsLimbs]
  /\ borrow = Limb_ZERO
  /\ res = <<>>
  /\ modulus = Uint_ZERO /\ n = Uint_ZERO /\ n_bits = 0 /\ attempts = 0
  /\ stream = <<>> /\ consumed = 0

Compare ==
  /\ pc = "cmp_call"
  /\ res' = [sub |-> Uint_borrowing_sub(lhs, rhs, borrow),
             lt  |-> ct_lt(lhs, rhs),
             tl  |-> ct_lt(rhs, lhs),
             gt  |-> ct_gt(lhs, rhs),
             eq  |-> ct_eq(lhs, rhs)]
  /\ pc' = "cmp_done"
  /\ UNCHANGED <<modulus, n, n_bits, attempts, stream, consumed, lhs, rhs, borrow>>

NextCmp == Compare

SpecCmp == InitCmp /\ [][NextCmp]_vars

---------------------------------------------------------------------------
(* random_bits_core on its own: every bit length, a zeroed and a dirty     *)
(* buffer; lhs keeps the buffer as it was at the call.                     *)

InitBits ==
  /\ pc = "bits_call"
  /\ n \in {Uint_ZERO, AllOnes}
  /\ lhs = n
  /\ n_bits \in 0 .. BITS
  /\ stream = <<>> /\ consumed = 0
  /\ modulus = Uint_ZERO /\ attempts = 0
  /\ rhs = 0 /\ borrow = 0 /\ res = 0

RandomBits ==
  /\ pc = "bits_call"
  /\ \E draws \in RngDraws(FullSource, n_bits) :
       /\ n' = random_bits_core(draws, n, n_bits)
       /\ stream' = Flatten(draws, 1)
       /\ consumed' = consumed + Len(stream')
  /\ pc' = "bits_done"
  /\ UNCHANGED <<modulus, n_bits, attempts, lhs, rhs, borrow, res>>

NextBits == RandomBits

SpecBits == InitBits /\ [][NextBits]_vars

---------------------------------------------------------------------------
(* Reference notions the properties are stated with.  None of them uses an *)
(* operator of the model above.                                            *)

RECURSIVE Value(_, _)
Value(x, k) == IF k = 0 THEN 0 ELSE Value(x, k - 1) + x[k] * (LimbMod ^ (k - 1))

(* x < y on the k low limbs, most significant differing limb deciding. *)
LexLess(x, y, k) ==
  \E i \in 1 .. k : x[i] < y[i] /\ \A j \in (i + 1) .. k : x[j] = y[j]

(* x < y as unsigned magnitudes: by value where the value fits TLC's       *)
(* integers, positionally otherwise.                                       *)
Below(x, y) ==
  IF BITS <= 30 THEN Value(x, LIMBS) < Value(y, LIMBS) ELSE LexLess(x, y, LIMBS)

FlagSet(f) == f >= 2 ^ (LimbBits - 1)

Bit(v, b) == (v \div (2 ^ b)) % 2

(* Little-endian value of the m bytes of s after offset off. *)
RECURSIVE StreamLE(_, _, _)
StreamLE(s, off, m) ==
  IF m = 0 THEN 0 ELSE StreamLE(s, off, m - 1) + s[off + m] * (ByteMod ^ (m - 1))

ActiveLimbs(bl) == (bl + LimbBits - 1) \div LimbBits
TopWidth(bl) == IF bl % LimbBits = 0 THEN LimbBits ELSE bl % LimbBits

(* What a buffer holds after a draw of bl >= 1 bits that delivered s, when *)
(* the limbs past the active ones were zero before.                        *)
Candidate(s, bl) ==
  LET top == ActiveLimbs(bl)
      fresh == Len(s) - (top - 1) * LimbBytes
  IN  [i \in LimbIdx |->
         IF i < top THEN StreamLE(s, (i - 1) * LimbBytes, LimbBytes)
         ELSE IF i = top
              THEN StreamLE(s, (top - 1) * LimbBytes, fresh) % (2 ^ TopWidth(bl))
              ELSE 0]

HighBitsZero(x, bl) ==
  \A i \in LimbIdx : \A b \in 0 .. (LimbBits - 1) :
     (i - 1) * LimbBits + b >= bl => Bit(x[i], b) = 0

Running == pc \in {"sampling", "accepted", "panicked"}
Terminal == pc \in {"accepted", "panicked"}

---------------------------------------------------------------------------
(* C1: whenever the sampler returns a value, that value is below the       *)
(* modulus as an unsigned integer; a draw at or above it is never returned.*)
C1_SampleBelowModulus ==
  pc = "accepted" => Below(n, modulus)

C1_Witness ==
  /\ pc = "accepted" /\ attempts >= 2
  /\ n_bits = BITS /\ n # Uint_ZERO /\ modulus # AllOnes

(* C2: NonZero::new of the all-zero Uint is absent, so no zero modulus is  *)
(* ever held by a NonZero and handed to the sampler.                       *)
C2_NoZeroModulus ==
  pc \in {"have_modulus", "sampling", "accepted", "panicked"} => modulus # Uint_ZERO

(* C3: the limb subtraction returns (a - b - c) mod 2^W, c the incoming    *)
(* flag's bit, and sets the outgoing flag exactly when a - c < b.          *)
C3_LimbBorrow ==
  pc = "limb_done" =>
    LET c == IF FlagSet(borrow) THEN 1 ELSE 0
    IN  /\ res[1] = (lhs - rhs - c) % LimbMod
        /\ FlagSet(res[2]) <=> (lhs - c < rhs)
        /\ res[2] \in {0, LimbMax}

C3_Witness ==
  /\ pc = "limb_done" /\ FlagSet(borrow) /\ lhs = rhs
  /\ res[1] = LimbMax /\ FlagSet(res[2])

(* C4: the wide subtraction started without borrow threads the borrow      *)
(* through every limb from the least significant one, its final flag is    *)
(* set exactly when lhs < rhs, and lt / ct_lt answers the same.            *)
C4_WideBorrowIsLess ==
  pc = "cmp_done" =>
    /\ (res.sub[2] # 0) <=> Below(lhs, rhs)
    /\ res.sub[2] \in {0, LimbMax}
    /\ (res.lt = 1) <=> Below(lhs, rhs)
    /\ res.lt \in {0, 1}
    /\ \A i \in LimbIdx :
         res.sub[1][i] =
           (lhs[i] - rhs[i] - (IF LexLess(lhs, rhs, i - 1) THEN 1 ELSE 0)) % LimbMod
    /\ BITS <= 30 =>
         Value(res.sub[1], LIMBS) = (Value(lhs, LIMBS) - Value(rhs, LIMBS)) % (2 ^ BITS)

C4_Witness ==
  /\ pc = "cmp_done" /\ res.lt = 1 /\ lhs[1] < rhs[1]
  /\ \A i \in 2 .. LIMBS : lhs[i] = rhs[i] /\ lhs[i] > 0

(* C5: exactly one of x < y, x = y, y < x is answered; ct_eq is true       *)
(* exactly when all limb pairs agree; ct_gt(x, y) answers y < x.           *)
C5_Trichotomy ==
  pc = "cmp_done" =>
    /\ res.lt + res.eq + res.tl = 1
    /\ {res.lt, res.eq, res.tl, res.gt} \subseteq {0, 1}
    /\ (res.eq = 1) <=> (\A i \in LimbIdx : lhs[i] = rhs[i])
    /\ res.gt = res.tl
    /\ (res.gt = 1) <=> Below(rhs, lhs)

C5_Witness ==
  /\ pc = "cmp_done" /\ res.gt = 1 /\ res.lt = 0 /\ res.eq = 0
  /\ lhs[LIMBS] = rhs[LIMBS] /\ lhs[1] < rhs[1]

C9_ZeroBitsNoOp ==
  (pc = "bits_done" /\ n_bits = 0) => (n = lhs /\ consumed = 0 /\ stream = <<>>)

C9_Witness ==
  pc = "bits_done" /\ n_bits = 0 /\ n = AllOnes

(* C7: a draw below the modulus ends the operation at once with that      *)
(* value, a rejected draw leads to another draw, the operation otherwise   *)
(* ends only by panicking once MaxAttempts draws were all rejected; every  *)
(* step of the loop ends it or starts one more of at most MaxAttempts      *)
(* draws, and the loop can always take a step, so the operation ends.      *)
C7_LoopStep ==
  /\ pc = "sampling" =>
       \/ /\ pc' = "accepted" /\ Below(n', modulus)
          /\ attempts < MaxAttempts /\ attempts' = attempts + 1
       \/ /\ pc' = "sampling" /\ ~Below(n', modulus)
          /\ attempts < MaxAttempts /\ attempts' = attempts + 1
       \/ /\ pc' = "panicked" /\ attempts = MaxAttempts
          /\ attempts' = attempts /\ n' = n
  /\ Terminal => vars' = vars

C7_AcceptResampleOrPanic ==
  /\ [][C7_LoopStep]_vars
  /\ [](attempts <= MaxAttempts)
  /\ [](pc = "sampling" => ENABLED (Iterate \/ Panic))

C7_Witness ==
  /\ pc = "panicked" /\ attempts = MaxAttempts
  /\ modulus # Uint_ZERO /\ n_bits = BITS

(* C8 as stated: with the scenario modulus (all limbs MAX, limb 0 MAX - 1) *)
(* the all-ones draw is rejected and the returned value has limb 0 even.   *)
C8_ReturnedLimb0Even ==
  (pc = "accepted" /\ modulus = ScenarioModulus) =>
    (n # AllOnes /\ n[1] % 2 = 0)

(* C8 amended: with the scenario modulus exactly the all-ones draw and    *)
(* the draw equal to the modulus are rejected, every other draw is         *)
(* returned, and the returned value is below the modulus; its limb 0 may   *)
(* be odd.                                                                 *)
C8_ScenarioRejectsOnlyTop ==
  (Running /\ attempts >= 1 /\ modulus = ScenarioModulus) =>
    /\ pc = "accepted" => (n # AllOnes /\ n # ScenarioModulus /\ Below(n, modulus))
    /\ pc = "sampling" => n \in {AllOnes, ScenarioModulus}

C8_Witness ==
  /\ pc = "accepted" /\ modulus = ScenarioModulus /\ attempts >= 2
  /\ n[1] = LimbMax /\ n_bits = BITS

(* C10: the scratch integer is reused without being zeroed, and still in   *)
(* every attempt the candidate is determined by the bytes of that attempt  *)
(* alone: active limbs are overwritten, the short top limb's stale staging *)
(* bytes are masked away, and all bits at position >= n_bits stay zero.    *)
C10_CandidateFromCurrentDraw ==
  Running =>
    /\ HighBitsZero(n, n_bits)
    /\ (attempts >= 1 /\ n_bits >= 1) => n = Candidate(stream, n_bits)
    /\ (attempts >= 1 /\ n_bits = 0) => n = Uint_ZERO

C10_Witness ==
  /\ pc = "sampling" /\ attempts = 2
  /\ n_bits = LimbBits + 1
  /\ n[1] = LimbMax /\ n[2] = 0

====
